---- MODULE Spec2Model ----
(***************************************************************************)
(* Model of src/algorithms.py: merge_sort, insertion_sort, binary_search,  *)
(* linear_search and the callers' view of them.  Lists are TLA+ sequences; *)
(* the code's 0-based indices are kept and translated at each access.      *)
(***************************************************************************)
EXTENDS Integers, Sequences, FiniteSets

\* Longest input list explored.
MaxLen == 4
\* Number of distinct element values.
NumElems == 3
\* Number of distinct key values.
NumKeys == 2

Elem == 1..NumElems
KeyVal == 1..NumKeys
\* Search targets: every key value, one below all of them, one above.
Target == 0..(NumKeys + 1)
\* The key functions: every total map from elements to keys.
KeyFun == [Elem -> KeyVal]
Inputs == UNION {[1..n -> Elem] : n \in 0..MaxLen}

VARIABLES
    data,    \* the caller's list object (its current contents)
    data0,   \* the contents of the caller's list before any call
    key,     \* the key function passed to every call
    op,      \* the operation that has just returned ("none" between calls)
    arg,     \* the contents of the list when the call in progress was made
    target,  \* the target passed to the call in progress, else PyNone
    repeats, \* the repeats passed to the call in progress, else PyNone
    calls,   \* the timed calls the benchmark in progress made, in order
    elapsed, \* the timer readings the benchmark in progress took, in order
    ret,     \* what the call returned, until the caller is done with it
    bike,      \* the Bike object the program holds, NoBike before it has one
    bike0,     \* that object as its constructor left it
    bike_call  \* the last constructor call or attribute assignment

bikeVars == <<bike, bike0, bike_call>>

vars == <<data, data0, key, op, arg, target, repeats, calls, elapsed, ret,
          bikeVars>>

----------------------------------------------------------------------------
\* Python values as the callers see them.

PyNone == [type |-> "NoneType"]
PyInt(i) == [type |-> "int", val |-> i]
PyList(s) == [type |-> "list", val |-> s]
PyRaise(e) == [type |-> "raise", exc |-> e]

\* s[i] for a 0-based index i that is in range.
At(s, i) == s[i + 1]
\* s[lo:hi] for 0 <= lo <= hi <= len(s).
Slice(s, lo, hi) == SubSeq(s, lo + 1, hi)
\* Whether s[i] raises no IndexError (negative indices count from the end).
IndexOK(s, i) == (0 - Len(s)) <= i /\ i < Len(s)
\* s[i] for any index Python accepts.
Item(s, i) == IF i >= 0 THEN s[i + 1] ELSE s[Len(s) + i + 1]

----------------------------------------------------------------------------
\* The key function.  A key function that raises on an element (one it
\* cannot handle) maps it to KeyFault, which is no key value and no target.

KeyFault == NumKeys + 2

\* `key(e)` raises.
KeyRaises(K, e) == K[e] = KeyFault

\* The error key(e) raises, as it leaves whatever called key.
KeyError(e) == [type |-> "raise", exc |-> "KeyFunctionError", elem |-> e]

\* v is an error on its way to the caller, not a returned value.
IsRaise(v) == v.type = "raise"

----------------------------------------------------------------------------
\* _merge

\* A tie-breaking slip: strict comparison takes the right element on a tie.
MergeTakesLeftStrict(kl, kr) == kl < kr

\* `if key(left[i]) <= key(right[j])`
MergeTakesLeft(kl, kr) == kl <= kr

\* A slip that forgets the left tail.
MergeRestNoLeft(left, right, i, j, result) ==
    result \o Slice(right, j, Len(right))

\* `result.extend(left[i:]); result.extend(right[j:])`
MergeRest(left, right, i, j, result) ==
    (result \o Slice(left, i, Len(left))) \o Slice(right, j, Len(right))

\* A slip that lets i reach len(left).
MergeContinuesPastLeft(left, right, i, j) ==
    i <= Len(left) /\ j < Len(right)

\* `while i < len(left) and j < len(right)`
MergeContinues(left, right, i, j) == i < Len(left) /\ j < Len(right)

\* The while loop and the two extends; yields the list _merge returns, or
\* the error that ends it.
RECURSIVE MergeLoop(_, _, _, _, _, _)
MergeLoop(left, right, i, j, result, K) ==
    IF MergeContinues(left, right, i, j)
    THEN IF ~IndexOK(left, i) \/ ~IndexOK(right, j)
         THEN PyRaise("IndexError")
         ELSE IF KeyRaises(K, Item(left, i)) THEN KeyError(Item(left, i))
         ELSE IF KeyRaises(K, Item(right, j)) THEN KeyError(Item(right, j))
         ELSE IF MergeTakesLeft(K[Item(left, i)], K[Item(right, j)])
              THEN MergeLoop(left, right, i + 1, j,
                             Append(result, Item(left, i)), K)
              ELSE MergeLoop(left, right, i, j + 1,
                             Append(result, Item(right, j)), K)
    ELSE PyList(MergeRest(left, right, i, j, result))

_merge(left, right, K) == MergeLoop(left, right, 0, 0, <<>>, K)

\* A slip that treats only the empty list as the base case.
MergeSortIsBaseEmptyOnly(d) == Len(d) <= 0

\* `if len(data) <= 1`
MergeSortIsBase(d) == Len(d) <= 1

\* A slip that splits off nothing on the left.
MergeSortMidZero(d) == 0 * Len(d)

\* `mid = len(data) // 2`
MergeSortMid(d) == Len(d) \div 2

\* The nesting a call on d may use.  A run whose halves shrink nests at
\* most len(d) deep; a run that nests deeper never bottoms out, which
\* Python ends with RecursionError.
MergeSortDepth(d) == Len(d) + 1

\* One call of merge_sort with `depth` levels of nesting left: the list it
\* returns, or the error that ends it.
RECURSIVE MergeSortCall(_, _, _)
MergeSortCall(d, K, depth) ==
    IF depth = 0 THEN PyRaise("RecursionError")
    ELSE IF MergeSortIsBase(d) THEN PyList(d)
    ELSE LET mid == MergeSortMid(d)
             left == MergeSortCall(Slice(d, 0, mid), K, depth - 1)
         IN  IF IsRaise(left) THEN left
             ELSE LET right ==
                          MergeSortCall(Slice(d, mid, Len(d)), K, depth - 1)
                  IN  IF IsRaise(right) THEN right
                      ELSE _merge(left.val, right.val, K)

\* merge_sort: the value of the new list it returns, when it returns.
merge_sort(d, K) == MergeSortCall(d, K, MergeSortDepth(d)).val

----------------------------------------------------------------------------
\* insertion_sort, over a heap of list objects: "caller" is the list the
\* caller passed, "copy" the list made by list(data).

\* A slip that binds arr to the caller's list instead of copying it.
ListAlias(h) == [heap |-> h, ref |-> "caller"]

\* `arr = list(data)`: a new list object with the same elements.
ListCopy(h) ==
    [heap |-> [o \in {"caller", "copy"} |-> h["caller"]], ref |-> "copy"]

\* A slip that also shifts elements with an equal key.
ShiftCondNonStrict(kj, current_key) == kj >= current_key

\* `key(arr[j]) > current_key`
ShiftCond(kj, current_key) == kj > current_key

\* The inner while loop; yields the heap and j when it exits, the error
\* that ended it if one did (else PyNone), and the numbers of times it
\* has run `arr[j + 1] = arr[j]` (shifts) and has evaluated
\* `key(arr[j]) > current_key` (compares).
RECURSIVE ShiftLoop(_, _, _, _, _, _, _)
ShiftLoop(h, arr, j, current_key, K, shifts, compares) ==
    IF j >= 0
    THEN IF KeyRaises(K, At(h[arr], j))
         THEN [heap |-> h, j |-> j, exc |-> KeyError(At(h[arr], j)),
               shifts |-> shifts, compares |-> compares]
         ELSE IF ShiftCond(K[At(h[arr], j)], current_key)
              THEN ShiftLoop([h EXCEPT ![arr][j + 2] = At(h[arr], j)],
                             arr, j - 1, current_key, K,
                             shifts + 1, compares + 1)
              ELSE [heap |-> h, j |-> j, exc |-> PyNone,
                    shifts |-> shifts, compares |-> compares + 1]
    ELSE [heap |-> h, j |-> j, exc |-> PyNone,
          shifts |-> shifts, compares |-> compares]

\* A slip that writes the held element one place too far left.
PlaceAtJ(h, arr, j, current) ==
    IF j >= 0 THEN [h EXCEPT ![arr][j + 1] = current] ELSE h

\* `arr[j + 1] = current`
Place(h, arr, j, current) == [h EXCEPT ![arr][j + 2] = current]

\* The for loop over range(1, len(arr)); yields the heap when it ends,
\* the error that ended it if one did (else PyNone), and one record for
\* every iteration that completed: its i, the element held, the j the
\* inner loop ended with, that loop's shifts and compares, and arr as the
\* iteration found it (before) and left it (after).
RECURSIVE InsertLoop(_, _, _, _, _)
InsertLoop(h, arr, i, K, passes) ==
    IF i < Len(h[arr])
    THEN LET current == At(h[arr], i)
         IN  IF KeyRaises(K, current)
             THEN [heap |-> h, exc |-> KeyError(current), passes |-> passes]
             ELSE LET current_key == K[current]
                      sh == ShiftLoop(h, arr, i - 1, current_key, K, 0, 0)
                  IN  IF IsRaise(sh.exc)
                      THEN [heap |-> sh.heap, exc |-> sh.exc,
                            passes |-> passes]
                      ELSE LET placed ==
                                   Place(sh.heap, arr, sh.j, current)
                           IN  InsertLoop(
                                   placed, arr, i + 1, K,
                                   Append(passes,
                                          [i |-> i, current |-> current,
                                           j |-> sh.j,
                                           shifts |-> sh.shifts,
                                           compares |-> sh.compares,
                                           before |-> h[arr],
                                           after |-> placed[arr]]))
    ELSE [heap |-> h, exc |-> PyNone, passes |-> passes]

\* The whole call: the heap it leaves, the list object arr names, and the
\* error that ended the call if one did (else PyNone).
InsertionSortRun(d, K) ==
    LET c == ListCopy([o \in {"caller"} |-> d])
        r == InsertLoop(c.heap, c.ref, 1, K, <<>>)
    IN  [heap |-> r.heap, ref |-> c.ref, exc |-> r.exc, passes |-> r.passes]

\* What the call hands its caller: `return arr`, or the error.
InsertionSortCall(d, K) ==
    LET r == InsertionSortRun(d, K)
    IN  IF IsRaise(r.exc) THEN r.exc ELSE PyList(r.heap[r.ref])

\* insertion_sort: the value of the list it returns, when it returns.
insertion_sort(d, K) ==
    LET r == InsertionSortRun(d, K) IN r.heap[r.ref]

----------------------------------------------------------------------------
\* binary_search and linear_search

\* A slip that starts the interval one past the last index.
InitialHighLen(S) == Len(S)

\* `high = len(sorted_data) - 1`
InitialHigh(S) == Len(S) - 1

\* A slip that keeps the probed midpoint inside the interval.
LowAfterLessKeepsMid(mid) == mid

\* `low = mid + 1`
LowAfterLess(mid) == mid + 1

\* A slip that drops the element just below the midpoint as well.
HighAfterGreaterSkips(mid) == mid - 2

\* `high = mid - 1`
HighAfterGreater(mid) == mid - 1

\* A slip that probes the top of the interval instead of its middle.
MidpointHigh(low, high) == high

\* A slip that probes the bottom of the interval instead of its middle.
MidpointLow(low, high) == low

\* `mid = (low + high) // 2`
Midpoint(low, high) == (low + high) \div 2

\* A slip that accepts a key below the target as a match.
BinaryMatchAtMost(mid_val, t) == mid_val <= t

\* `if mid_val == target`
BinaryMatch(mid_val, t) == mid_val = t

\* The while loop.  Yields what the call hands its caller (ret), the
\* interval and midpoint of every iteration in order (probes), and the
\* interval with which the loop was left (low, high).  A run of more
\* iterations than `fuel` is one that would not end: "NoReturn".
RECURSIVE BinaryLoop(_, _, _, _, _, _, _)
BinaryLoop(S, t, K, low, high, fuel, probes) ==
    IF low <= high
    THEN LET mid == Midpoint(low, high)
             seen == Append(probes,
                            [low |-> low, high |-> high, mid |-> mid])
             out(r) == [ret |-> r, probes |-> seen,
                        low |-> low, high |-> high]
         IN  IF ~IndexOK(S, mid) THEN out(PyRaise("IndexError"))
             ELSE IF fuel = 0 THEN out(PyRaise("NoReturn"))
             ELSE IF KeyRaises(K, Item(S, mid))
                  THEN out(KeyError(Item(S, mid)))
             ELSE LET mid_val == K[Item(S, mid)]
                  IN  IF BinaryMatch(mid_val, t) THEN out(PyInt(mid))
                      ELSE IF mid_val < t
                           THEN BinaryLoop(S, t, K, LowAfterLess(mid), high,
                                           fuel - 1, seen)
                           ELSE BinaryLoop(S, t, K, low, HighAfterGreater(mid),
                                           fuel - 1, seen)
    ELSE [ret |-> PyNone, probes |-> probes, low |-> low, high |-> high]

\* The whole call.  The loop runs at most len + 1 times when every
\* iteration shrinks the interval.
BinarySearchRun(S, t, K) ==
    BinaryLoop(S, t, K, 0, InitialHigh(S), Len(S) + 1, <<>>)

\* binary_search: what the call hands its caller.
binary_search(S, t, K) == BinarySearchRun(S, t, K).ret

\* A slip that steps over every other element.
LinearNextSkips(i) == i + 2

\* `for i, item in enumerate(data)`: the index after i.
LinearNext(i) == i + 1

\* A slip that matches keys up to the target.
LinearMatchAtMost(k, t) == k <= t

\* `if key(item) == target`
LinearMatch(k, t) == k = t

\* A slip that treats a failing key as a miss.
LinearKeyErrorSwallowed(e) == PyNone

\* key(item) raising inside the loop: nothing catches it.
LinearKeyError(e) == KeyError(e)

RECURSIVE LinearLoop(_, _, _, _)
LinearLoop(S, t, K, i) ==
    IF i < Len(S)
    THEN IF KeyRaises(K, At(S, i))
         THEN LinearKeyError(At(S, i))
         ELSE IF LinearMatch(K[At(S, i)], t)
              THEN PyInt(i)
              ELSE LinearLoop(S, t, K, LinearNext(i))
    ELSE PyNone

\* linear_search: what the call hands its caller.
linear_search(S, t, K) == LinearLoop(S, t, K, 0)

----------------------------------------------------------------------------
\* benchmark_sort and benchmark_search.  timeit.timeit(f, number=n) calls f
\* n times in a row and returns the seconds they took together; the model
\* draws that reading, in microseconds, from ElapsedMicros.

PyDict(f) == [type |-> "dict", val |-> f]

\* Largest repeats argument explored (0 is explored too).
MaxRepeats == 2
\* Longest input list explored together with the benchmarks.
MaxBenchLen == 2

\* Timer readings: a run too short to show in the rounded result, and a
\* longer one.
ElapsedMicros == {2, 36}

\* n copies of the call name c: the calls timeit makes for one metric.
Times(c, n) == [k \in 1..n |-> c]

\* A slip that forgets the conversion to milliseconds.
RoundMsInSeconds(total, n) == total \div (10000 * n)

\* A slip that truncates instead of rounding.
RoundMsTruncates(total, n) == total \div (10 * n)

\* `round(total / repeats * 1000, 2)` for repeats >= 1, in hundredths of a
\* millisecond: total microseconds / (10 * n), rounded to the nearest
\* integer, an exact tie going to the even one.
RoundMs(total, n) ==
    LET d == 10 * n
        q == total \div d
        r == total % d
    IN  IF 2 * r < d THEN q
        ELSE IF 2 * r > d THEN q + 1
        ELSE IF q % 2 = 0 THEN q ELSE q + 1

\* A slip that reports the merge_sort timing only.
BenchmarkSortResultOneMetric(merge_time, builtin_time, n) ==
    IF n = 0
    THEN PyRaise("ZeroDivisionError")
    ELSE PyDict([merge_sort_ms |-> RoundMs(merge_time, n)])

\* A slip that validates repeats and reports zero timings for no runs.
BenchmarkSortResultNoRuns(merge_time, builtin_time, n) ==
    IF n = 0
    THEN PyDict([merge_sort_ms |-> 0, builtin_sorted_ms |-> 0])
    ELSE PyDict([merge_sort_ms |-> RoundMs(merge_time, n),
                 builtin_sorted_ms |-> RoundMs(builtin_time, n)])

\* What benchmark_sort returns for the two readings.
BenchmarkSortResult(merge_time, builtin_time, n) ==
    IF n = 0
    THEN PyRaise("ZeroDivisionError")
    ELSE PyDict([merge_sort_ms |-> RoundMs(merge_time, n),
                 builtin_sorted_ms |-> RoundMs(builtin_time, n)])

\* What benchmark_search returns for the three readings.
BenchmarkSearchResult(binary_time, linear_time, builtin_time, n) ==
    IF n = 0
    THEN PyRaise("ZeroDivisionError")
    ELSE PyDict([binary_search_ms |-> RoundMs(binary_time, n),
                 linear_search_ms |-> RoundMs(linear_time, n),
                 builtin_in_ms |-> RoundMs(builtin_time, n)])

\* `sorted(data, key=key)` and `[key(x) for x in data]` apply key to the
\* elements in list order: the error of the first element it raises on,
\* PyNone when it raises on none.
FirstKeyError(d, K) ==
    IF \E i \in DOMAIN d : KeyRaises(K, d[i])
    THEN KeyError(d[CHOOSE i \in DOMAIN d :
                        /\ KeyRaises(K, d[i])
                        /\ \A j \in 1..(i - 1) : ~KeyRaises(K, d[j])])
    ELSE PyNone

\* A slip that runs the timed callable in a try block and goes on.
TimedRaisesNever(outcome, n) == FALSE

\* timeit.timeit(f, number=n) ends in f's error at f's first call.
TimedRaises(outcome, n) == n >= 1 /\ IsRaise(outcome)

\* A slip that runs the callable once more than asked.
TimedCallsOneMore(c, outcome, n) ==
    IF TimedRaises(outcome, n) THEN <<c>> ELSE Times(c, n + 1)

\* The calls timeit.timeit(f, number=n) makes of f, named c, which ends in
\* `outcome` at every call.
TimedCalls(c, outcome, n) ==
    IF TimedRaises(outcome, n) THEN <<c>> ELSE Times(c, n)

\* One call of benchmark_sort: what it hands its caller, the timed calls
\* it made and the readings it took.
BenchmarkSortRun(d, K, n, merge_time, builtin_time) ==
    LET m == MergeSortCall(d, K, MergeSortDepth(d))
        b == FirstKeyError(d, K)
        c1 == TimedCalls("merge_sort", m, n)
        c2 == TimedCalls("sorted", b, n)
    IN  IF TimedRaises(m, n)
        THEN [ret |-> m, calls |-> c1, elapsed |-> <<>>]
        ELSE IF TimedRaises(b, n)
        THEN [ret |-> b, calls |-> c1 \o c2, elapsed |-> <<merge_time>>]
        ELSE [ret |-> BenchmarkSortResult(merge_time, builtin_time, n),
              calls |-> c1 \o c2,
              elapsed |-> <<merge_time, builtin_time>>]

\* One call of benchmark_search, likewise.
BenchmarkSearchRun(d, t, K, n, binary_time, linear_time, builtin_time) ==
    LET bs == binary_search(d, t, K)
        ls == linear_search(d, t, K)
        bi == FirstKeyError(d, K)
        c1 == TimedCalls("binary_search", bs, n)
        c2 == TimedCalls("linear_search", ls, n)
        c3 == TimedCalls("in", bi, n)
    IN  IF TimedRaises(bs, n)
        THEN [ret |-> bs, calls |-> c1, elapsed |-> <<>>]
        ELSE IF TimedRaises(ls, n)
        THEN [ret |-> ls, calls |-> c1 \o c2, elapsed |-> <<binary_time>>]
        ELSE IF TimedRaises(bi, n)
        THEN [ret |-> bi, calls |-> (c1 \o c2) \o c3,
              elapsed |-> <<binary_time, linear_time>>]
        ELSE [ret |-> BenchmarkSearchResult(binary_time, linear_time,
                                            builtin_time, n),
              calls |-> (c1 \o c2) \o c3,
              elapsed |-> <<binary_time, linear_time, builtin_time>>]

----------------------------------------------------------------------------
\* class Bike(Entity) and its subclasses ClassicBike and ElectricBike
\* (src/models.py).  A Bike object is a record of its class and its
\* private attributes; attribute values a caller passes are tagged Python
\* values.

PyStr(s) == [type |-> "str", val |-> s]

\* `VALID_STATUSES = {"available", "in_use", "maintenance"}`
VALID_STATUSES == {"available", "in_use", "maintenance"}

\* No Bike object yet.
NoBike == [cls |-> "none"]

\* No call yet.
NoCall == [name |-> "none", value |-> PyNone, before |-> "", exc |-> "none"]

\* Whether hash(v) succeeds: a list has no hash.
Hashable(v) == v.type # "list"

\* `value in self.VALID_STATUSES` for a hashable value.
InValidStatuses(v) == v.type = "str" /\ v.val \in VALID_STATUSES

\* Entity.__init__: `if not id or not isinstance(id, str): raise`.
EntityInit(id) ==
    IF id.type # "str" \/ id.val = ""
    THEN "ValueError"
    ELSE "none"

\* Bike.__init__ for the class cls: the object it leaves, or the error of
\* the first check that fails: the id, the bike_type, the status.
BikeInit(cls, bike_id, bike_type, status) ==
    IF EntityInit(bike_id) # "none"
    THEN [obj |-> NoBike, exc |-> EntityInit(bike_id)]
    ELSE IF ~(bike_type.type = "str"
              /\ bike_type.val \in {"classic", "electric"})
    THEN [obj |-> NoBike, exc |-> "ValueError"]
    ELSE IF ~Hashable(status)
    THEN [obj |-> NoBike, exc |-> "TypeError"]
    ELSE IF ~InValidStatuses(status)
    THEN [obj |-> NoBike, exc |-> "ValueError"]
    ELSE [obj |-> [cls |-> cls, id |-> bike_id.val,
                   bike_type |-> bike_type.val, status |-> status.val],
          exc |-> "none"]

\* ClassicBike.__init__: Bike.__init__ with bike_type "classic", then the
\* check of gear_count.
ClassicBikeInit(bike_id, gear_count, status) ==
    LET b == BikeInit("ClassicBike", bike_id, PyStr("classic"), status)
    IN  IF b.exc # "none" THEN b
        ELSE IF gear_count <= 0 THEN [obj |-> NoBike, exc |-> "ValueError"]
        ELSE b

\* ElectricBike.__init__: Bike.__init__ with bike_type "electric", then
\* the checks of battery_level and max_range_km.
ElectricBikeInit(bike_id, battery_level, max_range_km, status) ==
    LET b == BikeInit("ElectricBike", bike_id, PyStr("electric"), status)
    IN  IF b.exc # "none" THEN b
        ELSE IF ~(0 <= battery_level /\ battery_level <= 100)
        THEN [obj |-> NoBike, exc |-> "ValueError"]
        ELSE IF max_range_km <= 0
        THEN [obj |-> NoBike, exc |-> "ValueError"]
        ELSE b

\* A slip that stores any string without validating it.
StatusSetterUnchecked(b, value) ==
    IF ~Hashable(value) THEN [obj |-> b, exc |-> "TypeError"]
    ELSE IF value.type # "str" THEN [obj |-> b, exc |-> "ValueError"]
    ELSE [obj |-> [b EXCEPT !.status = value.val], exc |-> "none"]

\* The status setter: `bike.status = value`.
StatusSetter(b, value) ==
    IF ~Hashable(value) THEN [obj |-> b, exc |-> "TypeError"]
    ELSE IF ~InValidStatuses(value) THEN [obj |-> b, exc |-> "ValueError"]
    ELSE [obj |-> [b EXCEPT !.status = value.val], exc |-> "none"]

\* `bike.bike_type = value` and `bike.id = value`: the properties have no
\* setter.
ReadOnlyAssign(b, value) == [obj |-> b, exc |-> "AttributeError"]

----------------------------------------------------------------------------
\* The callers' view: a list and a key function, and calls on them.

\* A caller holding one of the lists L and one of the key functions KF.
InitWith(L, KF) ==
    /\ data \in L
    /\ data0 = data
    /\ key \in KF
    /\ op = "none"
    /\ arg = <<>>
    /\ target = PyNone
    /\ repeats = PyNone
    /\ calls = <<>>
    /\ elapsed = <<>>
    /\ ret = PyNone
    /\ bike = NoBike
    /\ bike0 = NoBike
    /\ bike_call = NoCall

Init == InitWith(Inputs, KeyFun)

\* merge_sort reads data and builds new lists only.
CallMergeSort ==
    /\ op = "none"
    /\ op' = "merge_sort"
    /\ arg' = data
    /\ ret' = MergeSortCall(data, key, MergeSortDepth(data))
    /\ UNCHANGED <<data, data0, key, target, repeats, calls, elapsed, bikeVars>>

\* insertion_sort writes to the list object arr refers to.
CallInsertionSort ==
    LET r == InsertionSortRun(data, key)
    IN  /\ op = "none"
        /\ op' = "insertion_sort"
        /\ arg' = data
        /\ ret' = InsertionSortCall(data, key)
        /\ data' = r.heap["caller"]
        /\ UNCHANGED <<data0, key, target, repeats, calls, elapsed, bikeVars>>

CallBinarySearch ==
    \E t \in Target :
        /\ op = "none"
        /\ op' = "binary_search"
        /\ arg' = data
        /\ target' = PyInt(t)
        /\ ret' = binary_search(data, t, key)
        /\ UNCHANGED <<data, data0, key, repeats, calls, elapsed, bikeVars>>

CallLinearSearch ==
    \E t \in Target :
        /\ op = "none"
        /\ op' = "linear_search"
        /\ arg' = data
        /\ target' = PyInt(t)
        /\ ret' = linear_search(data, t, key)
        /\ UNCHANGED <<data, data0, key, repeats, calls, elapsed, bikeVars>>

\* benchmark_sort with the timer's readings drawn from R.  The timed
\* callables read data (merge_sort, sorted) and build new lists.
CallBenchmarkSortWith(R) ==
    \E n \in 0..MaxRepeats, merge_time \in R, builtin_time \in R :
        LET r == BenchmarkSortRun(data, key, n, merge_time, builtin_time)
        IN  /\ op = "none"
            /\ op' = "benchmark_sort"
            /\ arg' = data
            /\ repeats' = PyInt(n)
            /\ calls' = r.calls
            /\ elapsed' = r.elapsed
            /\ ret' = r.ret
            /\ UNCHANGED <<data, data0, key, target, bikeVars>>

CallBenchmarkSort == CallBenchmarkSortWith(ElapsedMicros)

\* benchmark_search with the timer's readings drawn from R.  The timed
\* callables read data (the two searches, a list comprehension).
CallBenchmarkSearchWith(R) ==
    \E t \in Target, n \in 0..MaxRepeats, binary_time \in R,
       linear_time \in R, builtin_time \in R :
        LET r == BenchmarkSearchRun(data, t, key, n, binary_time,
                                    linear_time, builtin_time)
        IN  /\ op = "none"
            /\ op' = "benchmark_search"
            /\ arg' = data
            /\ target' = PyInt(t)
            /\ repeats' = PyInt(n)
            /\ calls' = r.calls
            /\ elapsed' = r.elapsed
            /\ ret' = r.ret
            /\ UNCHANGED <<data, data0, key, bikeVars>>

CallBenchmarkSearch == CallBenchmarkSearchWith(ElapsedMicros)

\* The caller is done with the returned value; the list it passed and the
\* key function stay as the call left them, for the next call.
Discard ==
    /\ op # "none"
    /\ op' = "none"
    /\ arg' = <<>>
    /\ target' = PyNone
    /\ repeats' = PyNone
    /\ calls' = <<>>
    /\ elapsed' = <<>>
    /\ ret' = PyNone
    /\ UNCHANGED <<data, data0, key, bikeVars>>

\* The four algorithms, called in any order on one list.
Next ==
    \/ CallMergeSort
    \/ CallInsertionSort
    \/ CallBinarySearch
    \/ CallLinearSearch
    \/ Discard

Spec == Init /\ [][Next]_vars

\* The algorithms and the two benchmarks, called in any order on one list.
InitBench == Init /\ Len(data) <= MaxBenchLen

NextBench ==
    \/ CallMergeSort
    \/ CallInsertionSort
    \/ CallBinarySearch
    \/ CallLinearSearch
    \/ CallBenchmarkSort
    \/ CallBenchmarkSearch
    \/ Discard

SpecBench == InitBench /\ [][NextBench]_vars

\* The same calls with a key function that raises on some element.
\* Longest input list explored with such a key function.
MaxFaultLen == 3

\* The key functions that raise on at least one element.
FaultyKeyFun ==
    {k \in [Elem -> KeyVal \cup {KeyFault}] :
        \E e \in Elem : k[e] = KeyFault}

\* One timer reading is enough here: when the key function raises, no
\* reading reaches the caller.
FaultReadings == {r \in ElapsedMicros : \A q \in ElapsedMicros : q <= r}

InitKeyErr == InitWith({d \in Inputs : Len(d) <= MaxFaultLen}, FaultyKeyFun)

NextKeyErr ==
    \/ CallMergeSort
    \/ CallInsertionSort
    \/ CallBinarySearch
    \/ CallLinearSearch
    \/ CallBenchmarkSortWith(FaultReadings)
    \/ CallBenchmarkSearchWith(FaultReadings)
    \/ Discard

SpecKeyErr == InitKeyErr /\ [][NextKeyErr]_vars

\* The algorithms called with their default key, `lambda x: x`, on lists
\* of integers: every element is its own key.
DefaultKey == [e \in Elem |-> e]

InitDefaultKey == InitWith(Inputs, {DefaultKey})

SpecDefaultKey == InitDefaultKey /\ [][Next]_vars

\* A program that makes one Bike and assigns to its attributes; it calls
\* none of the algorithms.
BikeIds == {PyStr("B1"), PyStr("B2"), PyStr(""), PyInt(7)}
BikeTypes == {PyStr("classic"), PyStr("electric"), PyStr("cargo")}
StatusValues ==
    {PyStr(v) : v \in VALID_STATUSES \cup {"broken", ""}}
        \cup {PyNone, PyInt(1), PyList(<<>>)}
GearCounts == {0, 7}
BatteryLevels == {0 - 1, 0, 100, 101}
MaxRanges == {0, 50}

InitBike == InitWith({<<>>}, {DefaultKey})

algVars == <<data, data0, key, op, arg, target, repeats, calls, elapsed, ret>>

\* The constructor has returned r: an object, or an error and no object.
Constructed(name, status, r) ==
    /\ bike = NoBike
    /\ bike' = r.obj
    /\ bike0' = r.obj
    /\ bike_call' = [name |-> name, value |-> status, before |-> "",
                     exc |-> r.exc]
    /\ UNCHANGED algVars

NewBike ==
    \E bike_id \in BikeIds, bike_type \in BikeTypes, status \in StatusValues :
        Constructed("Bike", status,
                    BikeInit("Bike", bike_id, bike_type, status))

NewClassicBike ==
    \E bike_id \in BikeIds, gear_count \in GearCounts,
       status \in StatusValues :
        Constructed("ClassicBike", status,
                    ClassicBikeInit(bike_id, gear_count, status))

NewElectricBike ==
    \E bike_id \in BikeIds, battery_level \in BatteryLevels,
       max_range_km \in MaxRanges, status \in StatusValues :
        Constructed("ElectricBike", status,
                    ElectricBikeInit(bike_id, battery_level, max_range_km,
                                     status))

\* An assignment to an attribute of the Bike has ended as r says.
Assigned(name, value, r) ==
    /\ bike # NoBike
    /\ bike' = r.obj
    /\ bike_call' = [name |-> name, value |-> value,
                     before |-> bike.status, exc |-> r.exc]
    /\ UNCHANGED <<bike0, algVars>>

SetStatus ==
    \E value \in StatusValues :
        Assigned("status", value, StatusSetter(bike, value))

SetBikeType ==
    \E value \in BikeTypes :
        Assigned("bike_type", value, ReadOnlyAssign(bike, value))

SetId ==
    \E value \in BikeIds :
        Assigned("id", value, ReadOnlyAssign(bike, value))

NextBike ==
    \/ NewBike
    \/ NewClassicBike
    \/ NewElectricBike
    \/ SetStatus
    \/ SetBikeType
    \/ SetId

SpecBike == InitBike /\ [][NextBike]_vars

----------------------------------------------------------------------------
\* Vocabulary of the properties.

\* s is non-descending under K.
IsSortedBy(s, K) == \A i \in 1..(Len(s) - 1) : K[s[i]] <= K[s[i + 1]]

\* How many times e occurs in s.
Count(s, e) == Cardinality({i \in DOMAIN s : s[i] = e})

\* a and b hold the same elements with the same multiplicities.
IsPermutation(a, b) ==
    /\ Len(a) = Len(b)
    /\ \A e \in Elem : Count(a, e) = Count(b, e)

\* The elements of s whose key is k, in the order they have in s.
WithKey(s, K, k) == SelectSeq(s, LAMBDA e : K[e] = k)

\* Elements with equal keys are in out in the order they have in inp.
KeepsTieOrder(inp, out, K) ==
    \A k \in KeyVal : WithKey(out, K, k) = WithKey(inp, K, k)

\* Some element of s has key t.
HasKey(s, K, t) == \E i \in DOMAIN s : K[s[i]] = t

\* Two elements of s are different and have the same key.
HasTie(s, K) ==
    \E i, j \in DOMAIN s : s[i] # s[j] /\ K[s[i]] = K[s[j]]

\* No call has been made yet on the empty list: the states in which the
\* facts about all inputs at once are evaluated.
BeforeCallsOnEmpty == op = "none" /\ data = <<>>

\* r is an index of s whose element has key t.
IsMatch(r, s, K, t) ==
    /\ r.type = "int"
    /\ 0 <= r.val /\ r.val < Len(s)
    /\ K[At(s, r.val)] = t

----------------------------------------------------------------------------
\* C1: merge_sort returns a list of the input's length that is a
\* permutation of the input and non-descending under the key, for every
\* input (the empty and one-element lists too) and every key function.
MergeSortSortsCorrectly ==
    op = "merge_sort" =>
        /\ ret.type = "list"
        /\ Len(ret.val) = Len(arg)
        /\ IsPermutation(ret.val, arg)
        /\ IsSortedBy(ret.val, key)

\* merge_sort has reordered a list of four elements that was not sorted.
MergeSortReordered ==
    /\ op = "merge_sort"
    /\ Len(arg) >= 4
    /\ ~IsSortedBy(arg, key)
    /\ ret = PyList(merge_sort(arg, key))
    /\ ret.val # arg

\* C2: insertion_sort returns a list of the input's length that is a
\* permutation of the input and non-descending under the key, for every
\* input and every key function.
InsertionSortSortsCorrectly ==
    op = "insertion_sort" =>
        /\ ret.type = "list"
        /\ Len(ret.val) = Len(arg)
        /\ IsPermutation(ret.val, arg)
        /\ IsSortedBy(ret.val, key)

\* insertion_sort has reordered a list of four elements that was not sorted.
InsertionSortReordered ==
    /\ op = "insertion_sort"
    /\ Len(arg) >= 4
    /\ ~IsSortedBy(arg, key)
    /\ ret = PyList(insertion_sort(arg, key))
    /\ ret.val # arg

\* C3: merge_sort is stable: elements with equal keys keep the relative
\* order they have in the input, and a merge takes the left front on a tie.
MergeSortStable ==
    /\ op = "merge_sort" => KeepsTieOrder(arg, ret.val, key)
    /\ BeforeCallsOnEmpty =>
           \A a, b \in Elem :
               key[a] = key[b] => _merge(<<a>>, <<b>>, key) = PyList(<<a, b>>)

\* merge_sort has returned a list with two different elements of equal key.
MergeSortSawTie ==
    /\ op = "merge_sort"
    /\ HasTie(arg, key)
    /\ ret.type = "list"
    /\ KeepsTieOrder(arg, ret.val, key)

\* C4: insertion_sort is stable: elements with equal keys keep the relative
\* order they have in the input, an element being shifted right only past a
\* held element of strictly smaller key.
InsertionSortStable ==
    /\ op = "insertion_sort" => KeepsTieOrder(arg, ret.val, key)
    /\ BeforeCallsOnEmpty =>
           \A a, b \in Elem :
               (a # b /\ insertion_sort(<<a, b>>, key) = <<b, a>>)
                   => key[a] > key[b]

\* insertion_sort has moved elements of a list with two different elements
\* of equal key.
InsertionSortSawTie ==
    /\ op = "insertion_sort"
    /\ HasTie(arg, key)
    /\ ret.type = "list"
    /\ ret.val # arg
    /\ KeepsTieOrder(arg, ret.val, key)

\* C5: on a list that is non-descending under the key, binary_search
\* returns an index whose element has the target key when there is such an
\* element, and None when there is none.
BinarySearchCorrectOnSorted ==
    (op = "binary_search" /\ IsSortedBy(arg, key)) =>
        IF HasKey(arg, key, target.val)
        THEN IsMatch(ret, arg, key, target.val)
        ELSE ret = PyNone

\* binary_search has found the target in a sorted list of three or more
\* elements after moving the interval.
BinarySearchFoundOnSorted ==
    /\ op = "binary_search"
    /\ IsSortedBy(arg, key)
    /\ Len(arg) >= 3
    /\ IsMatch(ret, arg, key, target.val)
    /\ ret.val # (Len(arg) - 1) \div 2

\* C6: linear_search returns the smallest index whose element has the
\* target key when there is one, and None exactly when there is none,
\* sorted input or not.
LinearSearchFindsFirst ==
    op = "linear_search" =>
        /\ HasKey(arg, key, target.val) =>
               /\ IsMatch(ret, arg, key, target.val)
               /\ \A i \in 0..(ret.val - 1) : key[At(arg, i)] # target.val
        /\ (ret = PyNone) <=> ~HasKey(arg, key, target.val)

\* linear_search has returned the first of two matches, behind an element
\* that does not match.
LinearSearchFoundFirstOfTwo ==
    /\ op = "linear_search"
    /\ ret.type = "int"
    /\ ret.val > 0
    /\ \E i \in (ret.val + 1)..(Len(arg) - 1) : key[At(arg, i)] = target.val

\* C7: both searches return, without raising, None or an index of the list
\* whose element has the target key, on every list, sorted or not; None is
\* no index, so a match at index 0 is told apart from not found.
SearchResultIsNoneOrMatch ==
    op \in {"binary_search", "linear_search"} =>
        /\ ret.type \in {"NoneType", "int"}
        /\ ret = PyNone \/ IsMatch(ret, arg, key, target.val)
        /\ \A i \in 0..(Len(arg) - 1) : PyInt(i) # PyNone

\* binary_search has returned index 0 on a list that is not sorted.
BinarySearchFoundAtZeroUnsorted ==
    /\ op = "binary_search"
    /\ ~IsSortedBy(arg, key)
    /\ ret = PyInt(0)

\* C8: on a list that is non-descending under the key, linear_search and
\* binary_search agree on presence: one returns None exactly when the
\* other does.
SearchesAgreeOnSorted ==
    /\ (op = "binary_search" /\ IsSortedBy(arg, key)) =>
           ((ret = PyNone) <=> (linear_search(arg, target.val, key) = PyNone))
    /\ (op = "linear_search" /\ IsSortedBy(arg, key)) =>
           ((ret = PyNone) <=> (binary_search(arg, target.val, key) = PyNone))

\* On a sorted list both searches have found the target, at different
\* indices.
SearchesFoundDifferentIndices ==
    /\ op = "binary_search"
    /\ IsSortedBy(arg, key)
    /\ ret.type = "int"
    /\ linear_search(arg, target.val, key).type = "int"
    /\ linear_search(arg, target.val, key) # ret

\* C9: sorting is idempotent: sorting the list a sort returned, with the
\* same sort and key, returns an equal list.
SortIdempotent ==
    /\ op = "merge_sort" => merge_sort(ret.val, key) = ret.val
    /\ op = "insertion_sort" => insertion_sort(ret.val, key) = ret.val

\* A sort has returned a reordered list that holds two different elements
\* of equal key.
SortReorderedWithTie ==
    /\ op \in {"merge_sort", "insertion_sort"}
    /\ ret.type = "list"
    /\ ret.val # arg
    /\ HasTie(arg, key)

\* C10: no call changes the caller's list: after any calls it has the
\* length and the elements it had before them, and insertion_sort returns
\* a list object of its own, to which all its writes went.
CallerListUnchanged ==
    /\ Len(data) = Len(data0)
    /\ \A i \in DOMAIN data0 : data[i] = data0[i]
    /\ op = "insertion_sort" =>
           /\ InsertionSortRun(arg, key).ref # "caller"
           /\ InsertionSortRun(arg, key).heap["caller"] = arg

\* insertion_sort has returned a reordered list and the caller's list is
\* as it was.
InsertionSortWroteToCopy ==
    /\ op = "insertion_sort"
    /\ ret.type = "list"
    /\ ret.val # arg
    /\ data = arg

----------------------------------------------------------------------------
\* Vocabulary for key functions that raise.

\* The elements of s the key function raises on.
FaultyIn(s, K) == {s[i] : i \in {j \in DOMAIN s : KeyRaises(K, s[j])}}

\* r is the error the key function raises on some element of s.
IsKeyErrorOf(r, s, K) == \E e \in FaultyIn(s, K) : r = KeyError(e)

\* The places of s before place i (1-based) hold no element with key t and
\* none the key function raises on.
ScanReaches(s, K, t, i) ==
    \A j \in 1..(i - 1) : ~KeyRaises(K, s[j]) /\ K[s[j]] # t

\* A benchmark that ended in an error made the call that raised once, and
\* no timed call after it.
StoppedAtRaise ==
    /\ calls # <<>>
    /\ Cardinality({i \in DOMAIN calls : calls[i] = calls[Len(calls)]}) = 1

\* C11: when the key function raises on an element a call applies it to,
\* the call ends in that error and hands back no result: the sorts on any
\* list of two or more elements holding such an element, linear_search
\* when its scan reaches one, binary_search when it probes one, and the
\* benchmarks (for repeats >= 1) at the first timed call that meets one,
\* after which they time nothing more.
KeyErrorPropagates ==
    /\ op \in {"merge_sort", "insertion_sort"} =>
           IF Len(arg) >= 2 /\ FaultyIn(arg, key) # {}
           THEN IsKeyErrorOf(ret, arg, key)
           ELSE ret.type = "list"
    /\ op = "linear_search" =>
           \A i \in DOMAIN arg :
               (ScanReaches(arg, key, target.val, i) /\ KeyRaises(key, arg[i]))
                   => ret = KeyError(arg[i])
    /\ op = "binary_search" =>
           \A i \in DOMAIN BinarySearchRun(arg, target.val, key).probes :
               LET e == At(arg, BinarySearchRun(arg, target.val, key).probes[i].mid)
               IN  KeyRaises(key, e) => ret = KeyError(e)
    /\ (op \in {"benchmark_sort", "benchmark_search"} /\ repeats.val >= 1) =>
           IF FaultyIn(arg, key) # {}
           THEN IsKeyErrorOf(ret, arg, key) /\ StoppedAtRaise
           ELSE ret.type = "dict"

\* benchmark_search has ended in the key function's error raised in a
\* phase after the first: binary_search did not probe the element.
KeyErrorLeftLaterPhase ==
    /\ op = "benchmark_search"
    /\ IsKeyErrorOf(ret, arg, key)
    /\ Len(elapsed) >= 1
    /\ calls[1] # calls[Len(calls)]

----------------------------------------------------------------------------
\* C12: merge_sort returns for every list and total key function, with no
\* error: a list of at most one element comes back equal-valued, and a
\* longer one is split at floor(n/2) into two non-empty halves, each
\* shorter than the list, so that the nesting ends and _merge reads its
\* halves within bounds.
MergeSortReturns ==
    op = "merge_sort" =>
        /\ ret.type = "list"
        /\ Len(arg) <= 1 => ret = PyList(arg)
        /\ Len(arg) >= 2 =>
               LET mid == MergeSortMid(arg)
                   left == Slice(arg, 0, mid)
                   right == Slice(arg, mid, Len(arg))
               IN  /\ mid = Len(arg) \div 2
                   /\ 1 <= Len(left) /\ Len(left) < Len(arg)
                   /\ 1 <= Len(right) /\ Len(right) < Len(arg)
                   /\ left \o right = arg

\* merge_sort has returned from a list of odd length, three or more, which
\* it split unevenly.
MergeSortSplitOddList ==
    /\ op = "merge_sort"
    /\ Len(arg) >= 3
    /\ Len(arg) % 2 = 1
    /\ ret.type = "list"

\* C13: for repeats >= 1 benchmark_sort returns a mapping with exactly the
\* keys merge_sort_ms and builtin_sorted_ms, and benchmark_search one with
\* exactly binary_search_ms, linear_search_ms and builtin_in_ms, on every
\* list, the empty one too.
BenchmarkResultKeys ==
    /\ (op = "benchmark_sort" /\ repeats.val >= 1) =>
           /\ ret.type = "dict"
           /\ DOMAIN ret.val = {"merge_sort_ms", "builtin_sorted_ms"}
    /\ (op = "benchmark_search" /\ repeats.val >= 1) =>
           /\ ret.type = "dict"
           /\ DOMAIN ret.val =
                  {"binary_search_ms", "linear_search_ms", "builtin_in_ms"}

\* benchmark_search has returned its mapping for the empty list.
BenchmarkSearchOnEmpty ==
    /\ op = "benchmark_search"
    /\ arg = <<>>
    /\ repeats.val >= 1
    /\ ret.type = "dict"

\* The metrics of a returned mapping, in the order their phases run.
MetricsOf(o) ==
    IF o = "benchmark_sort"
    THEN <<"merge_sort_ms", "builtin_sorted_ms">>
    ELSE <<"binary_search_ms", "linear_search_ms", "builtin_in_ms">>

\* A benchmark has returned its mapping for a list that is not empty.
BenchmarkReturnedOnNonEmpty ==
    /\ op \in {"benchmark_sort", "benchmark_search"}
    /\ repeats.val >= 1
    /\ arg # <<>>
    /\ ret.type = "dict"

\* C14 as stated: for repeats >= 1 and a list that is not empty, every
\* timing in the returned mapping is strictly positive.
BenchmarkTimingsPositive ==
    BenchmarkReturnedOnNonEmpty =>
        \A m \in DOMAIN ret.val : ret.val[m] > 0

\* C14 as amended: for repeats >= 1 and a list that is not empty, every
\* timing in the returned mapping is >= 0; it is > 0 when the phase took
\* more than 0.005 ms per call (5 microseconds times repeats in all), and
\* 0.0 when it took less.
BenchmarkTimingsNonNegative ==
    BenchmarkReturnedOnNonEmpty =>
        \A i \in DOMAIN MetricsOf(op) :
            LET v == ret.val[MetricsOf(op)[i]]
            IN  /\ v >= 0
                /\ elapsed[i] > 5 * repeats.val => v > 0
                /\ elapsed[i] < 5 * repeats.val => v = 0

\* benchmark_sort has returned a mapping with one timing 0.0 and one
\* above it, for a list that is not empty.
BenchmarkReturnedZeroTiming ==
    /\ op = "benchmark_sort"
    /\ BenchmarkReturnedOnNonEmpty
    /\ ret.val["merge_sort_ms"] = 0
    /\ ret.val["builtin_sorted_ms"] > 0

\* C15: one benchmark call with repeats = r >= 1 makes each timed call
\* exactly r times in a row, one phase after the other (merge_sort then
\* sorted; binary_search, linear_search, then the membership test), and
\* reports for each metric the reading of its own phase alone.
BenchmarkPhasesInOrder ==
    /\ (op = "benchmark_sort" /\ repeats.val >= 1) =>
           /\ calls = Times("merge_sort", repeats.val)
                          \o Times("sorted", repeats.val)
           /\ Len(elapsed) = 2
    /\ (op = "benchmark_search" /\ repeats.val >= 1) =>
           /\ calls = (Times("binary_search", repeats.val)
                           \o Times("linear_search", repeats.val))
                          \o Times("in", repeats.val)
           /\ Len(elapsed) = 3
    /\ (op \in {"benchmark_sort", "benchmark_search"} /\ repeats.val >= 1) =>
           \A i \in DOMAIN MetricsOf(op) :
               ret.val[MetricsOf(op)[i]] = RoundMs(elapsed[i], repeats.val)

\* benchmark_search has run three phases of two calls each whose readings
\* differ, and reported different timings for them.
BenchmarkSearchPhasesDiffer ==
    /\ op = "benchmark_search"
    /\ repeats.val = 2
    /\ Len(calls) = 6
    /\ elapsed[1] # elapsed[2]
    /\ ret.val["binary_search_ms"] # ret.val["linear_search_ms"]

----------------------------------------------------------------------------
\* Vocabulary for runs of binary_search.

\* The run of the binary_search call that has just returned.
LastBinaryRun == BinarySearchRun(arg, target.val, key)

\* The size of the closed interval [low, high].
Width(low, high) == high - low + 1

\* floor(log2(n)) for n >= 1.
RECURSIVE FloorLog2(_)
FloorLog2(n) == IF n <= 1 THEN 0 ELSE 1 + FloorLog2(n \div 2)

\* The 0-based index of the last element of s with key t.
LastIndexOf(s, K, t) ==
    CHOOSE i \in 0..(Len(s) - 1) :
        /\ K[At(s, i)] = t
        /\ \A j \in (i + 1)..(Len(s) - 1) : K[At(s, j)] # t

\* C16: binary_search on a list that is not sorted raises nothing, and it
\* can miss a match: under every key function that tells two elements
\* apart there is such a list and a target that is the key of one of its
\* elements for which it returns None.
BinarySearchCanMiss ==
    /\ (op = "binary_search" /\ ~IsSortedBy(arg, key)) => ~IsRaise(ret)
    /\ (BeforeCallsOnEmpty /\ \E a, b \in Elem : key[a] # key[b]) =>
           \E S \in Inputs, t \in Target :
               /\ ~IsSortedBy(S, key)
               /\ HasKey(S, key, t)
               /\ binary_search(S, t, key) = PyNone

\* binary_search has returned None for a target that the list, which is
\* not sorted, holds.
BinarySearchMissed ==
    /\ op = "binary_search"
    /\ ~IsSortedBy(arg, key)
    /\ HasKey(arg, key, target.val)
    /\ ret = PyNone

\* C17 as stated: for some list that is not sorted and some target,
\* binary_search returns an index whose element does not have the target
\* key.
BinarySearchCanReturnWrongIndex ==
    BeforeCallsOnEmpty =>
        \E S \in Inputs, K \in KeyFun, t \in Target :
            /\ ~IsSortedBy(S, K)
            /\ binary_search(S, t, K).type = "int"
            /\ K[At(S, binary_search(S, t, K).val)] # t

\* C17 as amended: on a list that is not sorted, binary_search never
\* returns a wrong index: every index it returns is in range and its
\* element has the target key; what it can get wrong is to return None
\* for a target the list holds.
BinarySearchIndexMatchesUnsorted ==
    (op = "binary_search" /\ ~IsSortedBy(arg, key) /\ ret # PyNone) =>
        IsMatch(ret, arg, key, target.val)

\* binary_search has returned an index past the first on a list that is
\* not sorted.
BinarySearchFoundUnsorted ==
    /\ op = "binary_search"
    /\ ~IsSortedBy(arg, key)
    /\ ret.type = "int"
    /\ ret.val > 0
    /\ key[At(arg, ret.val)] = target.val

\* C18: in every iteration of binary_search on a list of length n, sorted
\* or not, 0 <= low, high <= n - 1 and low <= high; the midpoint probed is
\* floor((low + high) / 2), lies in [low, high] and is an index of the
\* list; an iteration that does not return leaves a strictly narrower
\* interval; the loop is left with low <= high + 1, returning None exactly
\* when low > high; so the call always returns, at once and with None on
\* the empty list.
BinarySearchLoopInvariant ==
    op = "binary_search" =>
        LET run == LastBinaryRun
            n == Len(arg)
        IN  /\ \A i \in DOMAIN run.probes :
                   LET p == run.probes[i]
                   IN  /\ 0 <= p.low /\ p.high <= n - 1
                       /\ p.low <= p.high
                       /\ p.mid = (p.low + p.high) \div 2
                       /\ p.low <= p.mid /\ p.mid <= p.high
                       /\ 0 <= p.mid /\ p.mid < n
            /\ \A i \in 1..(Len(run.probes) - 1) :
                   Width(run.probes[i + 1].low, run.probes[i + 1].high)
                       < Width(run.probes[i].low, run.probes[i].high)
            /\ 0 <= run.low /\ run.high <= n - 1
            /\ run.low <= run.high + 1
            /\ (ret = PyNone) <=> (run.low > run.high)
            /\ ret.type \in {"NoneType", "int"}
            /\ Len(run.probes) <= n
            /\ n = 0 => (run.probes = <<>> /\ ret = PyNone)

\* binary_search has returned after three iterations on a list that is
\* not sorted.
BinarySearchThreeIterations ==
    /\ op = "binary_search"
    /\ ~IsSortedBy(arg, key)
    /\ Len(LastBinaryRun.probes) >= 3

\* C19: binary_search applies the key to at most floor(log2(n)) + 1
\* elements of a list of length n >= 1 and to none of the empty list,
\* whatever the target and sorted or not: an iteration that does not
\* return leaves an interval of at most half the size, rounded down.
BinarySearchProbesLogarithmic ==
    op = "binary_search" =>
        LET run == LastBinaryRun
            n == Len(arg)
        IN  /\ n = 0 => Len(run.probes) = 0
            /\ n >= 1 => Len(run.probes) <= FloorLog2(n) + 1
            /\ \A i \in 1..(Len(run.probes) - 1) :
                   Width(run.probes[i + 1].low, run.probes[i + 1].high)
                       <= Width(run.probes[i].low, run.probes[i].high) \div 2
            /\ Width(run.low, run.high) >= 0

\* binary_search has used floor(log2(n)) + 1 probes on a list of four or
\* more elements.
BinarySearchUsedAllProbes ==
    /\ op = "binary_search"
    /\ Len(arg) >= 4
    /\ Len(LastBinaryRun.probes) = FloorLog2(Len(arg)) + 1

\* C20: on a sorted list with several elements of the target key,
\* binary_search returns the first midpoint it probes that matches, which
\* lies between the first and the last match and need be neither: under
\* every key function, for some sorted list it is past the index
\* linear_search returns, and for some it is before the last match.
BinarySearchReturnsSomeMatch ==
    /\ (op = "binary_search" /\ IsSortedBy(arg, key) /\ ret.type = "int") =>
           LET run == LastBinaryRun
           IN  /\ ret.val = run.probes[Len(run.probes)].mid
               /\ \A i \in 1..(Len(run.probes) - 1) :
                      key[At(arg, run.probes[i].mid)] # target.val
               /\ linear_search(arg, target.val, key).val <= ret.val
               /\ ret.val <= LastIndexOf(arg, key, target.val)
    /\ BeforeCallsOnEmpty =>
           /\ \E S \in Inputs, t \in Target :
                  /\ IsSortedBy(S, key)
                  /\ binary_search(S, t, key).type = "int"
                  /\ binary_search(S, t, key).val
                         > linear_search(S, t, key).val
           /\ \E S \in Inputs, t \in Target :
                  /\ IsSortedBy(S, key)
                  /\ binary_search(S, t, key).type = "int"
                  /\ binary_search(S, t, key).val < LastIndexOf(S, key, t)

\* binary_search has returned, on a sorted list, a match that is neither
\* the first nor the last.
BinarySearchFoundMiddleMatch ==
    /\ op = "binary_search"
    /\ IsSortedBy(arg, key)
    /\ ret.type = "int"
    /\ ret.val > linear_search(arg, target.val, key).val
    /\ ret.val < LastIndexOf(arg, key, target.val)

----------------------------------------------------------------------------
\* Vocabulary for runs of insertion_sort.

\* The run of the insertion_sort call that has just returned.
LastInsertionRun == InsertionSortRun(arg, key)

\* The elements of s at positions 0..i.
Prefix(s, i) == Slice(s, 0, i + 1)

\* The elements of s at positions i + 1..len(s) - 1.
Suffix(s, i) == Slice(s, i + 1, Len(s))

\* C21: after the iteration of insertion_sort for position i, the copy's
\* prefix [0..i] is non-descending under the key and a permutation of the
\* input's prefix [0..i], and its suffix [i+1..n-1] is the input's; the
\* inner scan of the iteration ends at the first element before position
\* i, going left, whose key is at most the held key (or past the front
\* when there is none), the elements it passed having moved one place
\* right, and the held element is written directly after it.  There is
\* one iteration for every position 1..n-1.
InsertionSortLoopInvariant ==
    op = "insertion_sort" =>
        LET run == LastInsertionRun
            n == Len(arg)
        IN  /\ Len(run.passes) = (IF n = 0 THEN 0 ELSE n - 1)
            /\ \A m \in DOMAIN run.passes :
                   LET p == run.passes[m]
                   IN  /\ p.i = m
                       /\ p.current = At(arg, p.i)
                       /\ p.before = (IF m = 1 THEN arg
                                      ELSE run.passes[m - 1].after)
                       /\ IsSortedBy(Prefix(p.after, p.i), key)
                       /\ IsPermutation(Prefix(p.after, p.i),
                                        Prefix(arg, p.i))
                       /\ Suffix(p.after, p.i) = Suffix(arg, p.i)
                       /\ 0 - 1 <= p.j /\ p.j < p.i
                       /\ p.j >= 0 =>
                              key[At(p.before, p.j)] <= key[p.current]
                       /\ \A k \in (p.j + 1)..(p.i - 1) :
                              /\ key[At(p.before, k)] > key[p.current]
                              /\ At(p.after, k + 1) = At(p.before, k)
                       /\ \A k \in 0..p.j :
                              At(p.after, k) = At(p.before, k)
                       /\ At(p.after, p.j + 1) = p.current
            /\ ret = PyList(IF n <= 1 THEN arg
                            ELSE run.passes[n - 1].after)

\* insertion_sort has returned after an iteration that moved the held
\* element into the middle of the sorted prefix, and an iteration after
\* the first that moved nothing.
InsertionSortInsertedInMiddle ==
    /\ op = "insertion_sort"
    /\ \E m \in DOMAIN LastInsertionRun.passes :
           /\ LastInsertionRun.passes[m].j >= 0
           /\ LastInsertionRun.passes[m].shifts >= 1
    /\ \E m \in DOMAIN LastInsertionRun.passes :
           /\ m >= 2
           /\ LastInsertionRun.passes[m].shifts = 0

\* The number of inversions of s under K: the pairs of positions whose
\* elements are in descending order of key.
Inversions(s, K) ==
    Cardinality({q \in (DOMAIN s) \X (DOMAIN s) :
                     q[1] < q[2] /\ K[s[q[1]]] > K[s[q[2]]]})

\* s is strictly descending under K.
IsStrictlyDescendingBy(s, K) ==
    \A i \in 1..(Len(s) - 1) : K[s[i]] > K[s[i + 1]]

\* The shifts of all the iterations in passes.
RECURSIVE TotalShifts(_)
TotalShifts(passes) ==
    IF passes = <<>> THEN 0
    ELSE passes[1].shifts + TotalShifts(Tail(passes))

\* C22: insertion_sort shifts an element one place right as many times as
\* its input has inversions under the key; an iteration compares keys
\* once for every shift and once more when it stops before the front.  An
\* input that is already non-descending causes no shift and exactly one
\* comparison in each of the iterations for positions 1..n-1; a strictly
\* descending input of length n causes n(n-1)/2 shifts.
InsertionSortShiftsAreInversions ==
    op = "insertion_sort" =>
        LET run == LastInsertionRun
            n == Len(arg)
        IN  /\ TotalShifts(run.passes) = Inversions(arg, key)
            /\ \A m \in DOMAIN run.passes :
                   run.passes[m].compares =
                       run.passes[m].shifts
                           + (IF run.passes[m].j >= 0 THEN 1 ELSE 0)
            /\ IsSortedBy(arg, key) =>
                   /\ TotalShifts(run.passes) = 0
                   /\ DOMAIN run.passes = 1..(n - 1)
                   /\ \A m \in DOMAIN run.passes :
                          run.passes[m].compares = 1
            /\ IsStrictlyDescendingBy(arg, key) =>
                   TotalShifts(run.passes) = (n * (n - 1)) \div 2

\* insertion_sort has returned after sorting a strictly descending list
\* of three or more elements.
InsertionSortSortedDescending ==
    /\ op = "insertion_sort"
    /\ Len(arg) >= 3
    /\ IsStrictlyDescendingBy(arg, key)
    /\ TotalShifts(LastInsertionRun.passes) >= 3
    /\ IsSortedBy(ret.val, key)

\* C23: merge_sort and insertion_sort return the same list for the same
\* input and key, element for element, elements of equal key included:
\* what either has returned is what the other returns on that input.
SortsAgree ==
    /\ op = "merge_sort" => ret = InsertionSortCall(arg, key)
    /\ op = "insertion_sort" =>
           ret = MergeSortCall(arg, key, MergeSortDepth(arg))

\* merge_sort has reordered a list of four elements, two of them
\* different and of equal key, into the list insertion_sort returns.
SortsAgreedOnTie ==
    /\ op = "merge_sort"
    /\ Len(arg) >= 4
    /\ HasTie(arg, key)
    /\ ret.val # arg
    /\ ret.val = insertion_sort(arg, key)

\* C24: the benchmarks do not validate repeats: called with repeats = 0
\* they make none of the timed calls, take the reading of every phase,
\* and end in a ZeroDivisionError when averaging, which reaches the
\* caller in place of a result mapping.
BenchmarkZeroRepeatsDivides ==
    (op \in {"benchmark_sort", "benchmark_search"} /\ repeats.val = 0) =>
        /\ calls = <<>>
        /\ Len(elapsed) = Len(MetricsOf(op))
        /\ ret = PyRaise("ZeroDivisionError")
        /\ ret.type # "dict"

\* benchmark_search has been called with repeats = 0 on a list that holds
\* the target, and has ended in the error.
BenchmarkSearchZeroRepeats ==
    /\ op = "benchmark_search"
    /\ repeats.val = 0
    /\ HasKey(arg, key, target.val)
    /\ calls = <<>>
    /\ IsRaise(ret)

\* C25: a Bike, ClassicBike or ElectricBike that has been constructed has,
\* after any assignments, a status that is one of available, in_use and
\* maintenance; assigning any other value to status ends in an error and
\* leaves the status it had; assigning a valid status succeeds whatever
\* the status was; and bike_type and id are those the constructor set.
BikeStatusAlwaysValid ==
    /\ bike # NoBike =>
           /\ bike.status \in VALID_STATUSES
           /\ bike.bike_type = bike0.bike_type
           /\ bike.id = bike0.id
           /\ bike.cls = bike0.cls
           /\ bike.cls = "ClassicBike" => bike.bike_type = "classic"
           /\ bike.cls = "ElectricBike" => bike.bike_type = "electric"
    /\ (bike = NoBike) <=> (bike_call.name = "none" \/
                            (bike_call.name \in {"Bike", "ClassicBike",
                                                 "ElectricBike"}
                             /\ bike_call.exc # "none"))
    /\ bike_call.name = "status" =>
           IF InValidStatuses(bike_call.value)
           THEN /\ bike_call.exc = "none"
                /\ bike.status = bike_call.value.val
           ELSE /\ bike_call.exc \in {"ValueError", "TypeError"}
                /\ bike.status = bike_call.before
    /\ bike_call.name \in {"bike_type", "id"} =>
           /\ bike_call.exc = "AttributeError"
           /\ bike.status = bike_call.before

\* A ClassicBike that was made in maintenance and has since been put in
\* use has refused the status broken.
BikeRefusedInvalidStatus ==
    /\ bike # NoBike
    /\ bike.cls = "ClassicBike"
    /\ bike0.status = "maintenance"
    /\ bike_call.name = "status"
    /\ bike_call.value = PyStr("broken")
    /\ bike_call.exc = "ValueError"
    /\ bike_call.before = "in_use"
    /\ bike.status = "in_use"

====
